---- MODULE Spec2Model ----
(***************************************************************************)
(* Resilient upload engine of Vector-SDK: the failover controller          *)
(* (blossom.rs upload_blob_with_progress_and_failover), the retry          *)
(* controllers (blossom.rs upload_blob_with_progress, upload.rs            *)
(* upload_data_with_progress), the upload attempt executors                *)
(* (upload_attempt in both files) and the chunked ProgressTrackingStream   *)
(* with its producer task, its consumer (poll_next) and the sampling loop;  *)
(* and the encryption of the payload (crypto.rs generate_encryption_params *)
(* and encrypt_data).                                                      *)
(*                                                                         *)
(* A chunk data[start..end] is written <<start, end>>; its length is       *)
(* end - start.  An error value carries its message and, as ghost fields,  *)
(* the list position and the attempt that produced it.                     *)
(***************************************************************************)
EXTENDS Integers, Sequences, FiniteSets, TLC

\* ---------------------------------------------------------------- bounds
MaxServers == 2
MaxRetry == 2
MaxChunks == 2
MaxLongChunks == 9
MaxPlain == 2

\* ------------------------------------------------------ program constants
QUEUE_CAPACITY == 8
BLOSSOM_CHUNK_SIZE == 65536
KEY_SIZE == 32
NONCE_SIZE == 16
TAG_SIZE == 16

\* ----------------------------------------------------------------- inputs
\* One URL that Url::parse rejects, one that parses but cannot be joined
\* with "upload" (a cannot-be-a-base URL), one usable server URL.
Urls == {"not a url", "mailto:x", "https://server"}

UrlParses(u) == u # "not a url"

UrlJoins(u) == u = "https://server"

\* UploadParams.chunk_size (upload.rs 187) is any usize; its default is 64 KiB.
ChunkSizes == {0, 1, BLOSSOM_CHUNK_SIZE}

\* UploadConfig.stall_threshold (upload.rs 27).
StallThresholds == {1, 2}

\* Payload lengths: up to MaxChunks full chunks, with and without a tail.
Tails == {0, 1}

PayloadSizes(c) == {n * c + d : n \in 0..MaxChunks, d \in Tails}

ServerLists == UNION {[1..n -> Urls] : n \in 0..MaxServers}

VARIABLES
    impl,             \* "blossom", "nip96" (upload.rs) or "simple" (blossom.rs, no progress)
    server_urls, retry_count, total_size, chunk_size, stall_threshold, mime_ok,
    pc,               \* position of the uploading task
    index,            \* failover loop: 1-based position in server_urls
    last_error,       \* failover controller's last_error
    attempt,          \* retry loop variable
    r_last_error,     \* retry controller's last_error: <<>> is None, <<e>> is Some(e)
    att_result,       \* value returned by upload_attempt
    r_result,         \* value returned by the retry controller
    result,           \* value returned to the caller
    bytes_sent,       \* the attempt's Arc<Mutex<u64>>
    position, queue, producer, stream_ended,
    orphans,          \* 1 while a producer whose receiver was dropped unblocked lingers, else 0
    orphans_blocked,  \* producers whose receiver was dropped while they waited in send
    last_percentage, last_bytes_sent, stall_counter,
    response,         \* the response the request future resolved to
    token,            \* token in the current request: the attempt that minted it (0: none)
    \* ghost state
    last_chunk,       \* the chunk poll_next delivered last in the current attempt
    chunks_delivered, \* chunks poll_next delivered in the current attempt, up to CountCap
    delivered_bytes,  \* total length of the chunks poll_next delivered in the current attempt
    quiet_ticks,      \* upload.rs: timer ticks since the counter last changed (saturating)
    attempt_id,       \* number of upload_attempt calls so far
    attempts,         \* per list position: upload_attempt calls
    sleeps,           \* per list position: retry sleeps
    observed,         \* list positions during which the observer was called
    reports,          \* observer calls since the current attempt began
    rejected,         \* the observer returned failure to a report of the current attempt
    reset_rejected,   \* the observer returned failure to the reset report made since the last attempt
    sign_calls,       \* signer invocations inside the current attempt
    contacted,        \* list positions to which an HTTP request was issued
    \* encryption of the payload
    crate,            \* "sdk" (src/crypto.rs) or "library" (vector_library/src/crypto.rs)
    params,           \* EncryptionParams: key and nonce, as hex texts
    data,             \* the plaintext
    encrypted,        \* what encrypt_data did: a buffer, an error value or a panic
    c_pc              \* "idle", "ready" (params and data at hand), "encrypted"

\* The payload of an upload is prepared before the upload begins, and the
\* upload leaves that state alone.
crypto == <<crate, params, data, encrypted, c_pc>>

inputs == <<impl, server_urls, retry_count, total_size, chunk_size, stall_threshold, mime_ok,
            crypto>>
failover == <<index, last_error>>
retry == <<attempt, r_last_error>>
results == <<att_result, r_result, result>>
stream == <<bytes_sent, position, queue, producer, stream_ended, orphans, orphans_blocked>>
sampler == <<last_percentage, last_bytes_sent, stall_counter>>
auth == <<token, sign_calls, contacted>>
counts == <<attempt_id, attempts, sleeps>>
observer == <<observed, reports, rejected, reset_rejected>>
consumed == <<last_chunk, chunks_delivered, delivered_bytes>>

vars == <<inputs, pc, failover, retry, results, stream, sampler, response, auth, counts, observer,
          consumed, quiet_ticks>>

\* ---------------------------------------------------------------- values
None == <<>>

Some(e) == <<e>>

Err(m) == [ok |-> FALSE, msg |-> m, server |-> index, att |-> attempt_id]

ErrAt(m, a) == [ok |-> FALSE, msg |-> m, server |-> index, att |-> a]

Ok(a) == [ok |-> TRUE, url |-> [server |-> index, att |-> a]]

NoResult == [ok |-> FALSE, msg |-> "pending", server |-> 0, att |-> 0]

\* Faulty variant of NoServers: last_error starts as the empty string.
NoDiagnostic == [ok |-> FALSE, msg |-> "", server |-> 0, att |-> 0]

NoServers == [ok |-> FALSE, msg |-> "No servers available", server |-> 0, att |-> 0]

NoAttempts == [ok |-> FALSE, msg |-> "No upload attempts were made", server |-> 0, att |-> 0]

AllFailed(e) == [ok |-> FALSE, msg |-> "All Blossom servers failed. Last error: ", last |-> e]

NoResponse == [status |-> 0, body |-> "none"]

\* What a server may answer: status 200 with a body that holds the locator,
\* is not JSON, lacks the locator or reports an error; status 500 with a
\* body that holds the locator or reports an error.
Responses ==
    {r \in [status : {200, 500}, body : {"descriptor", "malformed", "nolocator", "error"}] :
        r.status = 200 \/ r.body \in {"descriptor", "error"}}

Min(a, b) == IF a < b THEN a ELSE b

NoChunk == <<0, 0>>

\* The ghost counters stop counting at these values.
CountCap == MaxLongChunks + 2

\* ((current_bytes as f64 / total_size as f64) * 100.0) as u8: the double
\* product falls just below the integer when the exact quotient is 29, 57 or
\* 58 hundredths, and the cast truncates.
F64Low == {29, 57, 58}

Percentage(current_bytes, total) ==
    IF total > 0
    THEN LET exact == (current_bytes * 100) \div total
         IN  IF (current_bytes * 100) % total = 0 /\ exact \in F64Low
             THEN exact - 1
             ELSE exact
    ELSE 0

Report(p, b) == [percentage |-> p, bytes |-> b]

\* ------------------------------------------------------------ encryption
\* A text is a sequence of characters, a buffer a sequence of bytes.
HexDigits == <<"0", "1", "2", "3", "4", "5", "6", "7", "8", "9", "a", "b", "c", "d", "e", "f">>

\* hex::encode: two digits per byte, high nibble first.
RECURSIVE HexEncode(_)
HexEncode(bytes) ==
    IF bytes = <<>>
    THEN <<>>
    ELSE <<HexDigits[(Head(bytes) \div 16) + 1], HexDigits[(Head(bytes) % 16) + 1]>>
             \o HexEncode(Tail(bytes))

IsHexDigit(c) == \E i \in DOMAIN HexDigits : HexDigits[i] = c

DigitValue(c) == (CHOOSE i \in DOMAIN HexDigits : HexDigits[i] = c) - 1

\* hex::decode fails on a text of odd length or with a character that is no digit.
HexValid(text) == Len(text) % 2 = 0 /\ \A i \in DOMAIN text : IsHexDigit(text[i])

RECURSIVE HexDecode(_)
HexDecode(text) ==
    IF text = <<>>
    THEN <<>>
    ELSE <<16 * DigitValue(text[1]) + DigitValue(text[2])>> \o HexDecode(Tail(Tail(text)))

Filled(n, b) == [i \in 1..n |-> b]

\* What the random generator may return: two keys and two nonces.
RandomKeys == {Filled(KEY_SIZE, 0), Filled(KEY_SIZE, 171)}

RandomNonces == {Filled(NONCE_SIZE, 0), Filled(NONCE_SIZE, 18)}

\* EncryptionParams has public fields: a caller may pass any two texts.  A
\* well-formed text, a character that is no digit, an odd number of digits,
\* digits for one byte too few, no digits at all.
KeyTexts ==
    {HexEncode(Filled(KEY_SIZE, 171)),
     <<"z", "z">>,
     <<"a", "b", "c">>,
     HexEncode(Filled(KEY_SIZE - 1, 171)),
     <<>>}

NonceTexts ==
    {HexEncode(Filled(NONCE_SIZE, 18)),
     <<"z", "z">>,
     <<"1", "2", "3">>,
     HexEncode(Filled(NONCE_SIZE + 1, 18)),
     <<>>}

PlainBytes == {0, 65}

Plaintexts == UNION {[1..n -> PlainBytes] : n \in 0..MaxPlain}

NoParams == [key |-> <<>>, nonce |-> <<>>]

NoOutcome == [kind |-> "none"]

Encrypted(buffer) == [kind |-> "ok", out |-> buffer]

CryptoError(variant, m) == [kind |-> "err", error |-> variant, msg |-> m]

Panic == [kind |-> "panic"]

RECURSIVE Sum(_)
Sum(bytes) == IF bytes = <<>> THEN 0 ELSE Head(bytes) + Sum(Tail(bytes))

\* The cipher primitive (crate aes_gcm, AES-256-GCM with a 16-byte nonce) is
\* represented by what encrypt_data relies on: a keyed transformation of the
\* buffer in place, byte by byte and invertible under the same key and nonce,
\* and a tag of TAG_SIZE bytes computed from key, nonce and ciphertext.
Keystream(key, nonce, i) ==
    (key[((i - 1) % KEY_SIZE) + 1] + 7 * nonce[((i - 1) % NONCE_SIZE) + 1] + 31 * i) % 256

EncryptInPlace(buffer, key, nonce) ==
    [i \in 1..Len(buffer) |-> (buffer[i] + Keystream(key, nonce, i)) % 256]

Tag(ciphertext, key, nonce) ==
    [j \in 1..TAG_SIZE |->
        (Sum(ciphertext) + key[j] + key[j + TAG_SIZE] + 3 * nonce[j] + j + Len(ciphertext)) % 256]

\* Faulty variant of Sealed: the tag is kept apart from the buffer.
SealedDetached(buffer, tag) == buffer

\* crypto.rs 107: buffer.extend_from_slice(tag.as_slice()).
Sealed(buffer, tag) == buffer \o tag

\* crypto.rs 93-110: the cipher is initialised with the decoded key, the
\* buffer is a copy of the data, encrypted in place, and the tag is appended.
\* GenericArray::from_slice panics on a slice of another length than the array.
Seal(plain, key, nonce) ==
    IF Len(key) # KEY_SIZE \/ Len(nonce) # NONCE_SIZE
    THEN Panic
    ELSE LET buffer == EncryptInPlace(plain, key, nonce)
         IN  Encrypted(Sealed(buffer, Tag(buffer, key, nonce)))

\* src/crypto.rs 85-113: encrypt_data; a text that does not decode is a
\* CryptoError::HexEncodingError.
EncryptDataSdk(plain, p) ==
    IF ~HexValid(p.key) THEN CryptoError("HexEncodingError", "Invalid key")
    ELSE IF ~HexValid(p.nonce) THEN CryptoError("HexEncodingError", "Invalid nonce")
    ELSE Seal(plain, HexDecode(p.key), HexDecode(p.nonce))

\* vector_library/src/crypto.rs 53-79: encrypt_data; hex::decode(..).unwrap().
EncryptDataLibrary(plain, p) ==
    IF ~HexValid(p.key) \/ ~HexValid(p.nonce)
    THEN Panic
    ELSE Seal(plain, HexDecode(p.key), HexDecode(p.nonce))

encrypt_data(plain, p) ==
    IF crate = "sdk" THEN EncryptDataSdk(plain, p) ELSE EncryptDataLibrary(plain, p)

\* No encryption is in progress.
CryptoIdle ==
    /\ crate = "sdk"
    /\ params = NoParams
    /\ data = <<>>
    /\ encrypted = NoOutcome
    /\ c_pc = "idle"

\* ------------------------------------------------------------------ Init
\* The inputs are drawn from two slices: any server list and retry count
\* with a payload of one byte (upload.rs: also none), or one server, at most
\* one retry and any payload length.
\* No server was tried, no attempt made and nothing reported or signed.
NothingRun ==
    /\ index = 1
    /\ last_error = NoServers
    /\ attempt = 0
    /\ r_last_error = None
    /\ att_result = NoResult
    /\ r_result = NoResult
    /\ result = NoResult
    /\ bytes_sent = 0
    /\ position = 0
    /\ queue = <<>>
    /\ producer = "none"
    /\ stream_ended = FALSE
    /\ orphans = 0
    /\ orphans_blocked = 0
    /\ last_chunk = NoChunk
    /\ chunks_delivered = 0
    /\ delivered_bytes = 0
    /\ quiet_ticks = 0
    /\ last_percentage = 0
    /\ last_bytes_sent = 0
    /\ stall_counter = 0
    /\ response = NoResponse
    /\ token = 0
    /\ attempt_id = 0
    /\ attempts = [i \in 1..Len(server_urls) |-> 0]
    /\ sleeps = [i \in 1..Len(server_urls) |-> 0]
    /\ observed = {}
    /\ reports = <<>>
    /\ rejected = FALSE
    /\ reset_rejected = FALSE
    /\ sign_calls = 0
    /\ contacted = {}

\* The state in which upload_blob_with_progress_and_failover (blossom.rs) or
\* upload_data_with_progress (upload.rs) is entered.
Entered ==
    /\ pc = IF impl = "nip96" THEN "retry" ELSE "failover"
    /\ NothingRun

Init ==
    /\ impl \in {"blossom", "nip96"}
    /\ mime_ok \in BOOLEAN
    /\ chunk_size \in IF impl = "blossom" THEN {BLOSSOM_CHUNK_SIZE} ELSE ChunkSizes
    /\ stall_threshold \in IF impl = "blossom" THEN {0} ELSE StallThresholds
    /\ \/ /\ retry_count \in 0..MaxRetry
          /\ server_urls \in IF impl = "blossom" THEN ServerLists ELSE {<<"https://server">>}
          /\ total_size \in IF impl = "blossom" THEN {1} ELSE Tails
       \/ /\ retry_count \in 0..Min(1, MaxRetry)
          /\ server_urls = <<"https://server">>
          /\ total_size \in PayloadSizes(chunk_size)
    /\ Entered
    /\ CryptoIdle

\* Payloads of more chunks than the channel holds, and the 200000 bytes of
\* the documented example (three chunks of 64 KiB and one of 3392 bytes).
LongPayloadSizes(c) ==
    {n * c + d : n \in (MaxLongChunks - 1)..MaxLongChunks, d \in Tails}
        \cup (IF c = BLOSSOM_CHUNK_SIZE THEN {200000} ELSE {})

\* One attempt on a long payload, or, with one byte at most, one retry and
\* (blossom.rs) an invalid first entry.
InitStream ==
    /\ impl \in {"blossom", "nip96"}
    /\ mime_ok \in BOOLEAN
    /\ chunk_size \in IF impl = "blossom" THEN {BLOSSOM_CHUNK_SIZE} ELSE ChunkSizes
    /\ stall_threshold \in IF impl = "blossom" THEN {0} ELSE StallThresholds
    /\ \/ /\ retry_count = 1
          /\ server_urls = IF impl = "blossom" THEN <<"not a url", "https://server">>
                                               ELSE <<"https://server">>
          /\ total_size \in Tails
       \/ /\ retry_count = 0
          /\ server_urls = <<"https://server">>
          /\ total_size \in LongPayloadSizes(chunk_size)
    /\ Entered
    /\ CryptoIdle

\* ------------------------------------------------- failover controller
\* Faulty variant of FailoverSkipInvalid: the skip also resets the observer to 0%.
FailoverSkipInvalidReset ==
    /\ pc = "failover"
    /\ index <= Len(server_urls)
    /\ ~UrlParses(server_urls[index])
    /\ last_error' = ErrAt("Invalid server URL", 0)
    /\ reports' = Append(reports, Report(0, 0))
    /\ observed' = observed \cup {index}
    /\ index' = index + 1
    /\ UNCHANGED <<inputs, pc, retry, results, stream, sampler, response, auth, counts, consumed,
                   quiet_ticks, rejected, reset_rejected>>

\* Faulty variant of FailoverSkipInvalid: the loop stays at the invalid entry.
FailoverSkipInvalidStay ==
    /\ pc = "failover"
    /\ index <= Len(server_urls)
    /\ ~UrlParses(server_urls[index])
    /\ last_error' = ErrAt("Invalid server URL", 0)
    /\ UNCHANGED <<inputs, pc, index, retry, results, stream, sampler, response, auth, counts,
                   observer, consumed, quiet_ticks>>

\* blossom.rs 377-385: an entry that does not parse is recorded and skipped.
FailoverSkipInvalid ==
    /\ pc = "failover"
    /\ index <= Len(server_urls)
    /\ ~UrlParses(server_urls[index])
    /\ last_error' = ErrAt("Invalid server URL", 0)
    /\ index' = index + 1
    /\ UNCHANGED <<inputs, pc, retry, results, stream, sampler, response, auth, counts, observer,
                   consumed, quiet_ticks>>

\* blossom.rs 386-399: call upload_blob_with_progress for a parsed entry;
\* blossom.rs 125-128: its prologue.
FailoverTryServer ==
    /\ pc = "failover"
    /\ impl = "blossom"
    /\ index <= Len(server_urls)
    /\ UrlParses(server_urls[index])
    /\ attempt' = 0
    /\ r_last_error' = None
    /\ pc' = "retry"
    /\ UNCHANGED <<inputs, failover, results, stream, sampler, response, auth, counts, observer,
                   consumed, quiet_ticks>>

\* blossom.rs 414-415: the list is exhausted.
FailoverExhausted ==
    /\ pc = "failover"
    /\ index > Len(server_urls)
    /\ result' = AllFailed(last_error)
    /\ pc' = "done"
    /\ UNCHANGED <<inputs, failover, retry, att_result, r_result, stream, sampler, response, auth,
                   counts, observer, consumed, quiet_ticks>>

\* Faulty variant of UploadSucceeded: a success does not end the failover loop.
UploadSucceededNever(res) == FALSE

\* blossom.rs 400: the Ok arm of the match.
UploadSucceeded(res) == res.ok

\* Faulty variant of RecordFailure: the first failure is kept.
RecordFailureFirst(previous, e) == IF previous.server = 0 THEN e ELSE previous

\* blossom.rs 406: last_error = e.
RecordFailure(previous, e) == e

\* Faulty variant of FailoverHandle: the next server starts without the reset report.
FailoverHandleNoReset ==
    /\ pc = "retry_returned"
    /\ impl = "blossom"
    /\ IF UploadSucceeded(r_result)
       THEN /\ result' = r_result
            /\ pc' = "done"
            /\ UNCHANGED failover
       ELSE /\ last_error' = RecordFailure(last_error, r_result)
            /\ index' = index + 1
            /\ pc' = "failover"
            /\ UNCHANGED result
    /\ UNCHANGED <<inputs, retry, att_result, r_result, stream, sampler, response, auth, counts,
                   observer, consumed, quiet_ticks>>

\* Faulty variant of ResetResult: a rejected reset report takes the place of
\* the server's error.
ResetResultChecked(cb_ok, e) == IF cb_ok THEN e ELSE Err("observer failed")

\* blossom.rs 408: let _ = progress_callback(Some(0), Some(0)) discards the
\* result of the reset report; the server's error stands.
ResetResult(cb_ok, e) == e

\* blossom.rs 400-411: the match on the retry controller's result.
\* cb_ok: the observer accepts the reset report.
FailoverHandle ==
    /\ pc = "retry_returned"
    /\ impl = "blossom"
    /\ IF UploadSucceeded(r_result)
       THEN /\ result' = r_result
            /\ pc' = "done"
            /\ UNCHANGED <<failover, observer>>
       ELSE \E cb_ok \in BOOLEAN :
              /\ reports' = Append(reports, Report(0, 0))
              /\ observed' = observed \cup {index}
              /\ reset_rejected' = ~cb_ok
              /\ last_error' = RecordFailure(last_error, ResetResult(cb_ok, r_result))
              /\ index' = index + 1
              /\ pc' = "failover"
              /\ UNCHANGED <<result, rejected>>
    /\ UNCHANGED <<inputs, retry, att_result, r_result, stream, sampler, response, auth, counts,
                   consumed, quiet_ticks>>

\* upload.rs 219-268 returns to the caller of upload_data_with_progress.
Nip96Return ==
    /\ pc = "retry_returned"
    /\ impl = "nip96"
    /\ result' = r_result
    /\ pc' = "done"
    /\ UNCHANGED <<inputs, failover, retry, att_result, r_result, stream, sampler, response, auth,
                   counts, observer, consumed, quiet_ticks>>

\* ---------------------------------------------------- retry controller
\* Faulty variant of NeedsSleep: every iteration sleeps.
NeedsSleepAlways(a) == TRUE

\* blossom.rs 132, upload.rs 239: if attempt > 0.
NeedsSleep(a) == a > 0

\* blossom.rs 130-137, upload.rs 237-245: the first iteration does not sleep.
RetryFirst ==
    /\ pc = "retry"
    /\ ~NeedsSleep(attempt)
    /\ pc' = "attempt"
    /\ UNCHANGED <<inputs, failover, retry, results, stream, sampler, response, auth, counts, observer,
                   consumed, quiet_ticks>>

\* blossom.rs 132-135, upload.rs 239-243: sleep retry_spacing before a retry.
RetrySleep ==
    /\ pc = "retry"
    /\ NeedsSleep(attempt)
    /\ sleeps' = [sleeps EXCEPT ![index] = @ + 1]
    /\ pc' = "attempt"
    /\ UNCHANGED <<inputs, failover, retry, results, stream, sampler, response, auth, attempt_id,
                   attempts, observer, consumed, quiet_ticks>>

\* Faulty variants of RetryMore: an attempt the observer aborted ends the
\* loop; one iteration too many; no retry at all.
RetryMoreUnlessAborted(a) == a < retry_count /\ ~rejected

RetryMoreOffByOne(a) == a <= retry_count

RetryMoreNone(a) == FALSE

\* blossom.rs 130, upload.rs 237: iteration a is followed by another one.
RetryMore(a) == a < retry_count

\* blossom.rs 153, upload.rs 266-267: the error the loop ends with.
RetryError(recorded) == IF recorded = None THEN NoAttempts ELSE recorded[1]

\* Faulty variant of AttemptSucceeded: a success does not end the retry loop.
AttemptSucceededNever(res) == FALSE

\* blossom.rs 144, upload.rs 257: the Ok arm of the match.
AttemptSucceeded(res) == res.ok

\* Faulty variant of Record: the first error is kept.
RecordFirst(previous, e) == IF previous = None THEN Some(e) ELSE previous

\* blossom.rs 146, upload.rs 259: last_error = Some(e).
Record(previous, e) == Some(e)

\* blossom.rs 144-153, upload.rs 257-267: the match on the attempt's result.
\* The record of the attempt's reports and signer calls ends with it.
RetryHandle ==
    /\ pc = "returned"
    /\ IF AttemptSucceeded(att_result)
       THEN /\ r_result' = att_result
            /\ pc' = "retry_returned"
            /\ UNCHANGED retry
       ELSE /\ r_last_error' = Record(r_last_error, att_result)
            /\ IF RetryMore(attempt)
               THEN /\ attempt' = attempt + 1
                    /\ pc' = "retry"
                    /\ UNCHANGED r_result
               ELSE /\ r_result' = RetryError(r_last_error')
                    /\ pc' = "retry_returned"
                    /\ UNCHANGED attempt
    /\ stream_ended' = FALSE
    /\ reports' = <<>>
    /\ rejected' = FALSE
    /\ sign_calls' = 0
    /\ response' = NoResponse
    /\ quiet_ticks' = 0
    /\ UNCHANGED <<inputs, failover, att_result, result, bytes_sent, position, queue, producer,
                   orphans, orphans_blocked, sampler, token, contacted, counts, observed,
                   reset_rejected, consumed>>

\* ------------------------------------------------------ upload attempt
\* Faulty variant of MoreToSend: the loop stops before a final short chunk.
MoreToSendFullOnly(pos) == pos + chunk_size <= total_size

\* blossom.rs 32, upload.rs 127: while position < data.len().
MoreToSend(pos) == pos < total_size

\* Faulty variants of SendOutcome: a sender waiting for capacity is not woken
\* when the receiver is dropped; the channel is unbounded.
SendOutcomeNoWake(closed, queued) ==
    IF queued >= QUEUE_CAPACITY THEN "blocked" ELSE IF closed THEN "closed" ELSE "sent"

\* Faulty variant of SendOutcome: the channel holds nothing, a send waits.
SendOutcomeNoRoom(closed, queued) == IF closed THEN "closed" ELSE "blocked"

SendOutcomeUnbounded(closed, queued) == IF closed THEN "closed" ELSE "sent"

\* blossom.rs 25, 37-39, upload.rs 120, 133-135: tx.send(..).await on the
\* channel of QUEUE_CAPACITY chunks: an error once the receiver is dropped
\* (also for a sender that is waiting), else waiting while the channel is
\* full, else the chunk is enqueued.
SendOutcome(closed, queued) ==
    IF closed THEN "closed" ELSE IF queued >= QUEUE_CAPACITY THEN "blocked" ELSE "sent"

\* Faulty variant of AfterLoop: the code after the loop marks the counter complete.
AfterLoopCompleted(counter) == total_size

\* blossom.rs 240, upload.rs 375-376: the code after the select loop reads
\* the counter at most; nothing there writes it.
AfterLoop(counter) == counter

\* The attempt's locals are dropped when upload_attempt returns: the request
\* future and with it the stream's receiver (a producer that is still
\* running is left to find the channel closed), the sampler's variables, the
\* response and the authorization header.
DropStream ==
    LET waiting == MoreToSend(position) /\ SendOutcome(FALSE, Len(queue)) = "blocked"
    IN  /\ queue' = <<>>
        /\ position' = 0
        /\ producer' = "none"
        /\ orphans' = IF producer = "running" /\ ~waiting THEN 1 ELSE orphans
        /\ orphans_blocked' = orphans_blocked + (IF producer = "running" /\ waiting THEN 1 ELSE 0)
        /\ last_chunk' = NoChunk
        /\ chunks_delivered' = 0
        /\ delivered_bytes' = 0
        /\ bytes_sent' = AfterLoop(bytes_sent)
        /\ UNCHANGED stream_ended

AttemptReturns(res) ==
    /\ att_result' = res
    /\ pc' = "returned"
    /\ token' = 0
    /\ last_percentage' = 0
    /\ last_bytes_sent' = 0
    /\ stall_counter' = 0
    /\ DropStream

\* Faulty variant of NewCounter: one counter is shared by all the attempts.
SharedCounter(previous) == previous

\* blossom.rs 180, upload.rs 293: Arc::new(Mutex::new(0u64)), whatever the
\* counter of the previous attempt was left at.
NewCounter(previous) == 0

\* Faulty variant of FreshToken: the header built for the first attempt is reused.
CachedToken(att) == 1

\* blossom.rs 177, upload.rs 287-290: the header is built by a signer call
\* made inside the attempt; a token is named after the attempt that minted it.
FreshToken(att) == att

\* Faulty variant of Proceeds: the result of the initial report is dropped.
ProceedsAnyway(cb_ok) == TRUE

\* blossom.rs 174, upload.rs 296: the ? on the result of the initial report
\* returns the observer's error; the attempt goes on only when it accepted.
Proceeds(cb_ok) == cb_ok

\* blossom.rs 157-212: upload_attempt up to the select loop.
\* cb_ok: the observer accepts the 0% report; sign_ok: the signer signs.
BlossomAttemptError(joined, cb_ok, sign_ok) ==
    IF ~joined THEN "Invalid server URL"
    ELSE IF ~cb_ok THEN "observer failed"
    ELSE IF ~sign_ok THEN "Failed to sign auth event"
    ELSE "Invalid content type"

UploadAttemptBlossom ==
    /\ pc = "attempt"
    /\ impl = "blossom"
    /\ attempt_id' = attempt_id + 1
    /\ attempts' = [attempts EXCEPT ![index] = @ + 1]
    /\ \E cb_ok \in BOOLEAN, sign_ok \in BOOLEAN :
         LET joined == UrlJoins(server_urls[index])
             signed == joined /\ Proceeds(cb_ok)
             minted == signed /\ sign_ok
             requested == minted /\ mime_ok
             fresh == FreshToken(attempt_id')
         IN  /\ reports' = IF joined THEN <<Report(0, 0)>> ELSE <<>>
             /\ observed' = IF joined THEN observed \cup {index} ELSE observed
             /\ rejected' = (joined /\ ~cb_ok)
             /\ reset_rejected' = FALSE
             /\ sign_calls' = IF signed THEN 1 ELSE 0
             /\ token' = IF requested THEN fresh ELSE 0
             /\ contacted' = IF requested THEN contacted \cup {index} ELSE contacted
             /\ producer' = IF requested THEN "running" ELSE "none"
             /\ orphans' = IF minted /\ ~mime_ok THEN 1 ELSE orphans
             /\ IF requested
                THEN /\ pc' = "select"
                     /\ att_result' = NoResult
                ELSE /\ pc' = "returned"
                     /\ att_result' = ErrAt(BlossomAttemptError(joined, cb_ok, sign_ok), attempt_id')
    /\ bytes_sent' = NewCounter(bytes_sent)
    /\ position' = 0
    /\ queue' = <<>>
    /\ stream_ended' = FALSE
    /\ last_percentage' = 0
    /\ last_bytes_sent' = 0
    /\ stall_counter' = 0
    /\ response' = NoResponse
    /\ last_chunk' = NoChunk
    /\ chunks_delivered' = 0
    /\ delivered_bytes' = 0
    /\ quiet_ticks' = 0
    /\ UNCHANGED <<inputs, failover, retry, r_result, result, sleeps, orphans_blocked>>

\* upload.rs 271-334: upload_attempt up to the select loop.
Nip96AttemptError(sign_ok, cb_ok) ==
    IF ~sign_ok THEN "authorization failed"
    ELSE IF ~cb_ok THEN "observer failed"
    ELSE "Multipart MIME error"

UploadAttemptNip96 ==
    /\ pc = "attempt"
    /\ impl = "nip96"
    /\ attempt_id' = attempt_id + 1
    /\ attempts' = [attempts EXCEPT ![index] = @ + 1]
    /\ \E cb_ok \in BOOLEAN, sign_ok \in BOOLEAN :
         LET minted == sign_ok
             streamed == minted /\ Proceeds(cb_ok)
             requested == streamed /\ mime_ok
             fresh == FreshToken(attempt_id')
         IN  /\ sign_calls' = 1
             /\ reports' = IF minted THEN <<Report(0, 0)>> ELSE <<>>
             /\ observed' = IF minted THEN observed \cup {index} ELSE observed
             /\ rejected' = (minted /\ ~cb_ok)
             /\ reset_rejected' = FALSE
             /\ token' = IF requested THEN fresh ELSE 0
             /\ contacted' = IF requested THEN contacted \cup {index} ELSE contacted
             /\ producer' = IF requested THEN "running" ELSE "none"
             /\ orphans' = IF streamed /\ ~mime_ok THEN 1 ELSE orphans
             /\ IF requested
                THEN /\ pc' = "select"
                     /\ att_result' = NoResult
                ELSE /\ pc' = "returned"
                     /\ att_result' = ErrAt(Nip96AttemptError(sign_ok, cb_ok), attempt_id')
    /\ bytes_sent' = NewCounter(bytes_sent)
    /\ position' = 0
    /\ queue' = <<>>
    /\ stream_ended' = FALSE
    /\ last_percentage' = 0
    /\ last_bytes_sent' = 0
    /\ stall_counter' = 0
    /\ response' = NoResponse
    /\ last_chunk' = NoChunk
    /\ chunks_delivered' = 0
    /\ delivered_bytes' = 0
    /\ quiet_ticks' = 0
    /\ UNCHANGED <<inputs, failover, retry, r_result, result, sleeps, orphans_blocked>>

\* --------------------------------------------- ProgressTrackingStream
\* Faulty variant of ChunkEnd: the slice end is not clamped to the buffer.
ChunkEndUnclamped(pos) == pos + chunk_size

\* blossom.rs 33, upload.rs 128: end of the next slice.
ChunkEnd(pos) == Min(pos + chunk_size, total_size)

\* blossom.rs 41 (position = end), upload.rs 137 (position += chunk.len()).
Advance(pos, chunk) ==
    IF impl = "blossom" THEN chunk[2] ELSE pos + (chunk[2] - chunk[1])

\* blossom.rs 32-42, upload.rs 127-138: one iteration of the producer task;
\* tx.send waits while the channel holds QUEUE_CAPACITY chunks.
ProducerSend ==
    /\ producer = "running"
    /\ MoreToSend(position)
    /\ SendOutcome(FALSE, Len(queue)) = "sent"
    /\ LET chunk == <<position, ChunkEnd(position)>>
       IN  /\ queue' = Append(queue, chunk)
           /\ position' = Advance(position, chunk)
    /\ UNCHANGED <<inputs, pc, failover, retry, results, bytes_sent, producer, stream_ended, orphans,
                   orphans_blocked, sampler, response, auth, counts, observer, consumed, quiet_ticks>>

\* blossom.rs 32, upload.rs 127: the loop condition fails, the task ends and
\* drops the sender.
ProducerDone ==
    /\ producer = "running"
    /\ ~MoreToSend(position)
    /\ producer' = "done"
    /\ UNCHANGED <<inputs, pc, failover, retry, results, bytes_sent, position, queue, stream_ended,
                   orphans, orphans_blocked, sampler, response, auth, counts, observer, consumed,
                   quiet_ticks>>

\* blossom.rs 37-39, upload.rs 133-135: break when send returns an error.
ProducerBreaks(outcome) == outcome = "closed"

\* blossom.rs 32-43, upload.rs 127-139: a producer whose receiver was dropped
\* while it was not waiting ends: its loop had finished, or its next send
\* returns an error and it breaks.  The step is that of the last such
\* producer; the end of any other leaves every variable as it is.
ProducerExit ==
    /\ orphans > 0
    /\ ProducerBreaks(SendOutcome(TRUE, 0))
    /\ orphans' = 0
    /\ UNCHANGED <<inputs, pc, failover, retry, results, bytes_sent, position, queue, producer,
                   stream_ended, orphans_blocked, sampler, response, auth, counts, observer,
                   consumed, quiet_ticks>>

\* blossom.rs 37-39, upload.rs 133-135: a producer whose receiver was dropped
\* while it waited in send on the full channel ends when that send returns
\* the error.
ProducerWoken ==
    /\ orphans_blocked > 0
    /\ ProducerBreaks(SendOutcome(TRUE, QUEUE_CAPACITY))
    /\ orphans_blocked' = orphans_blocked - 1
    /\ UNCHANGED <<inputs, pc, failover, retry, results, bytes_sent, position, queue, producer,
                   stream_ended, orphans, sampler, response, auth, counts, observer, consumed,
                   quiet_ticks>>

\* Faulty variants of Deliver: a delivery is counted twice; the counter is
\* assigned the chunk length.
DeliverTwice(counter, chunk) == counter + 2 * (chunk[2] - chunk[1])

DeliverAssign(counter, chunk) == chunk[2] - chunk[1]

\* blossom.rs 55-71, upload.rs 151-169: the transport polls the stream.
Deliver(counter, chunk) == counter + (chunk[2] - chunk[1])

PollNext ==
    /\ pc = "select"
    /\ ~stream_ended
    /\ IF queue # <<>>
       THEN /\ bytes_sent' = Deliver(bytes_sent, Head(queue))
            /\ queue' = Tail(queue)
            /\ last_chunk' = Head(queue)
            /\ chunks_delivered' = Min(chunks_delivered + 1, CountCap)
            /\ delivered_bytes' = delivered_bytes + (Head(queue)[2] - Head(queue)[1])
            /\ quiet_ticks' = IF bytes_sent' # bytes_sent THEN 0 ELSE quiet_ticks
            /\ UNCHANGED stream_ended
       ELSE /\ producer = "done"
            /\ stream_ended' = TRUE
            /\ UNCHANGED <<bytes_sent, queue, consumed, quiet_ticks>>
    /\ UNCHANGED <<inputs, pc, failover, retry, results, position, producer, orphans, orphans_blocked,
                   sampler, response, auth, counts, observer>>

\* -------------------------------------------------------- select loop
\* Faulty variant of ShouldReportBlossom: every tick reports.
ShouldReportAlways(percentage, last) == TRUE

\* blossom.rs 230: report on every change of the percentage.
ShouldReportBlossom(percentage, last) == percentage # last

\* upload.rs 365: report only a larger percentage.
ShouldReportNip96(percentage, last) == percentage > last

\* Faulty variant of Stalled: an unchanged counter counts at any percentage.
StalledAtAnyPercentage(current_bytes, last_bytes, percentage) == current_bytes = last_bytes

\* upload.rs 353: the tick saw no new bytes in mid-transfer.
Stalled(current_bytes, last_bytes, percentage) ==
    current_bytes = last_bytes /\ percentage < 100 /\ percentage > 0

\* Faulty variant of StallLimit: the abort comes one tick late.
StallLimitLate(counter) == counter > stall_threshold

\* upload.rs 355: the stall counter has reached the threshold.
StallLimit(counter) == counter >= stall_threshold

\* blossom.rs 221-236: the timer branch.
TickBlossom ==
    /\ pc = "select"
    /\ impl = "blossom"
    /\ LET current_bytes == bytes_sent
           percentage == Percentage(current_bytes, total_size)
       IN  IF ShouldReportBlossom(percentage, last_percentage)
           THEN \E cb_ok \in BOOLEAN :
                  /\ reports' = Append(reports, Report(percentage, current_bytes))
                  /\ observed' = observed \cup {index}
                  /\ rejected' = ~cb_ok
                  /\ UNCHANGED reset_rejected
                  /\ IF cb_ok
                     THEN /\ last_percentage' = percentage
                          /\ UNCHANGED <<pc, att_result, stream, last_bytes_sent, stall_counter,
                                         response, token, consumed>>
                     ELSE AttemptReturns(Err("observer failed")) /\ UNCHANGED response
           ELSE UNCHANGED <<pc, att_result, stream, sampler, response, token, observer, consumed>>
    /\ UNCHANGED <<inputs, failover, retry, r_result, result, sign_calls, contacted, counts,
                   quiet_ticks>>

\* upload.rs 344-371: the timer branch, with stall detection.
TickNip96 ==
    /\ pc = "select"
    /\ impl = "nip96"
    /\ LET current_bytes == bytes_sent
           percentage == Percentage(current_bytes, total_size)
           stalled == Stalled(current_bytes, last_bytes_sent, percentage)
           counter == IF stalled THEN stall_counter + 1 ELSE 0
       IN  IF stalled /\ StallLimit(counter)
           THEN /\ AttemptReturns(Err("Upload stalled - no progress detected"))
                /\ UNCHANGED <<response, observer>>
           ELSE IF ShouldReportNip96(percentage, last_percentage)
           THEN \E cb_ok \in BOOLEAN :
                  /\ reports' = Append(reports, Report(percentage, current_bytes))
                  /\ observed' = observed \cup {index}
                  /\ rejected' = ~cb_ok
                  /\ UNCHANGED reset_rejected
                  /\ IF cb_ok
                     THEN /\ last_percentage' = percentage
                          /\ stall_counter' = counter
                          /\ last_bytes_sent' = IF stalled THEN last_bytes_sent ELSE current_bytes
                          /\ UNCHANGED <<pc, att_result, stream, response, token, consumed>>
                     ELSE AttemptReturns(Err("observer failed")) /\ UNCHANGED response
           ELSE /\ stall_counter' = counter
                /\ last_bytes_sent' = IF stalled THEN last_bytes_sent ELSE current_bytes
                /\ UNCHANGED <<pc, att_result, stream, last_percentage, response, token, observer,
                               consumed>>
    /\ quiet_ticks' = Min(quiet_ticks + 1, stall_threshold + 1)
    /\ UNCHANGED <<inputs, failover, retry, r_result, result, sign_calls, contacted, counts>>

\* blossom.rs 217-219, upload.rs 340-342: the request future fails with a
\* transport error and the attempt returns.
RequestFails ==
    /\ pc = "select"
    /\ AttemptReturns(Err("Upload request failed"))
    /\ UNCHANGED <<response, inputs, failover, retry, r_result, result, sign_calls, contacted, counts,
                   observer, quiet_ticks>>

\* blossom.rs 198-201: the client is built with a timeout of 300 s on the
\* whole request; a request that has not completed by then fails.  The
\* clients of upload.rs (77-97) are built without one.
HasRequestTimeout == impl = "blossom"

RequestTimesOut ==
    /\ pc = "select"
    /\ HasRequestTimeout
    /\ AttemptReturns(Err("Upload request failed"))
    /\ UNCHANGED <<response, inputs, failover, retry, r_result, result, sign_calls, contacted, counts,
                   observer, quiet_ticks>>

\* blossom.rs 253-257: the error made of the status and the text of the body.
StatusError(r) ==
    [ok |-> FALSE, msg |-> "Upload failed with status", status |-> r.status, text |-> r.body,
     server |-> index, att |-> attempt_id]

\* Faulty variant of BlossomOutcome: the body is parsed whatever the status.
BlossomOutcomeAnyStatus(r) ==
    IF r.body = "descriptor" THEN Ok(attempt_id) ELSE Err("Failed to parse response")

\* blossom.rs 246-258: the match on the response status.
BlossomOutcome(r) ==
    IF r.status = 200
    THEN IF r.body = "descriptor" THEN Ok(attempt_id) ELSE Err("Failed to parse response")
    ELSE StatusError(r)

\* upload.rs 378-391: decode the body, check its status field, find the url tag.
Nip96Outcome(r) ==
    IF r.body = "malformed" THEN Err("Reqwest client error")
    ELSE IF r.body = "error" THEN Err("Upload error")
    ELSE IF r.body = "nolocator" THEN Err("Failed to decode response")
    ELSE Ok(attempt_id)

\* Faulty variant of ReportResult: the result of the final report is discarded.
ReportResultDiscarded(cb_ok, outcome) == outcome

\* blossom.rs 243, upload.rs 376: the ? on the result of the final report
\* returns the observer's error before the response is looked at.
ReportResult(cb_ok, outcome) == IF cb_ok THEN outcome ELSE Err("observer failed")

\* blossom.rs 242: the 100% report is forced when the counter is complete
\* and no tick has reported it.
ForceFinalBlossom(final_bytes, last) == final_bytes = total_size /\ last < 100

\* blossom.rs 217-219, 240-258: the request future resolves to a response,
\* the loop breaks, the final report is made and the status matched.  The
\* response is whatever the server sends, whenever it sends it: the future
\* resolves when the response arrives, whether or not the body was sent to its end.
ResponseReadyBlossom ==
    /\ pc = "select"
    /\ impl = "blossom"
    /\ \E r \in Responses :
         /\ response' = r
         /\ IF ForceFinalBlossom(bytes_sent, last_percentage)
            THEN \E cb_ok \in BOOLEAN :
                   /\ reports' = Append(reports, Report(100, total_size))
                   /\ observed' = observed \cup {index}
                   /\ rejected' = ~cb_ok
                   /\ UNCHANGED reset_rejected
                   /\ AttemptReturns(ReportResult(cb_ok, BlossomOutcome(r)))
            ELSE /\ AttemptReturns(BlossomOutcome(r))
                 /\ UNCHANGED observer
    /\ UNCHANGED <<inputs, failover, retry, r_result, result, sign_calls, contacted, counts,
                   quiet_ticks>>

\* upload.rs 340-342, 375-391: the request future resolves to a response,
\* the loop breaks, 100% is reported unconditionally and the body decoded.
ResponseReadyNip96 ==
    /\ pc = "select"
    /\ impl = "nip96"
    /\ \E r \in Responses, cb_ok \in BOOLEAN :
         /\ response' = r
         /\ reports' = Append(reports, Report(100, total_size))
         /\ observed' = observed \cup {index}
         /\ rejected' = ~cb_ok
         /\ UNCHANGED reset_rejected
         /\ AttemptReturns(ReportResult(cb_ok, Nip96Outcome(r)))
    /\ UNCHANGED <<inputs, failover, retry, r_result, result, sign_calls, contacted, counts,
                   quiet_ticks>>

\* -------------------------------------------------- encryption steps
\* A caller with a plaintext, before any upload is started.
InitCrypto ==
    /\ impl = "blossom"
    /\ mime_ok = TRUE
    /\ chunk_size = BLOSSOM_CHUNK_SIZE
    /\ stall_threshold = 0
    /\ retry_count = 0
    /\ server_urls = <<"https://server">>
    /\ total_size = 0
    /\ Entered
    /\ crate \in {"sdk", "library"}
    /\ data \in Plaintexts
    /\ params = NoParams
    /\ encrypted = NoOutcome
    /\ c_pc = "idle"

\* src/crypto.rs 56-68, vector_library/src/crypto.rs 13-26:
\* generate_encryption_params draws a key and a nonce and encodes them.
GenerateParams ==
    /\ c_pc = "idle"
    /\ \E key \in RandomKeys, nonce \in RandomNonces :
         params' = [key |-> HexEncode(key), nonce |-> HexEncode(nonce)]
    /\ c_pc' = "ready"
    /\ UNCHANGED <<crate, data, encrypted>>
    /\ UNCHANGED <<impl, server_urls, retry_count, total_size, chunk_size, stall_threshold, mime_ok,
                   pc, failover, retry, results, stream, sampler, response, auth, counts, observer,
                   consumed, quiet_ticks>>

\* src/crypto.rs 14-19: the caller builds the EncryptionParams itself.
SupplyParams ==
    /\ c_pc = "idle"
    /\ \E key \in KeyTexts, nonce \in NonceTexts : params' = [key |-> key, nonce |-> nonce]
    /\ c_pc' = "ready"
    /\ UNCHANGED <<crate, data, encrypted>>
    /\ UNCHANGED <<impl, server_urls, retry_count, total_size, chunk_size, stall_threshold, mime_ok,
                   pc, failover, retry, results, stream, sampler, response, auth, counts, observer,
                   consumed, quiet_ticks>>

\* A call of encrypt_data(data, params).
EncryptData ==
    /\ c_pc = "ready"
    /\ encrypted' = encrypt_data(data, params)
    /\ c_pc' = "encrypted"
    /\ UNCHANGED <<crate, data, params>>
    /\ UNCHANGED <<impl, server_urls, retry_count, total_size, chunk_size, stall_threshold, mime_ok,
                   pc, failover, retry, results, stream, sampler, response, auth, counts, observer,
                   consumed, quiet_ticks>>

NextCrypto ==
    \/ GenerateParams
    \/ SupplyParams
    \/ EncryptData

\* ------------------------------------------------------ specification
Next ==
    \/ FailoverSkipInvalid
    \/ FailoverTryServer
    \/ FailoverExhausted
    \/ FailoverHandle
    \/ Nip96Return
    \/ RetryFirst
    \/ RetrySleep
    \/ RetryHandle
    \/ UploadAttemptBlossom
    \/ UploadAttemptNip96
    \/ ProducerSend
    \/ ProducerDone
    \/ ProducerExit
    \/ ProducerWoken
    \/ PollNext
    \/ TickBlossom
    \/ TickNip96
    \/ RequestFails
    \/ RequestTimesOut
    \/ ResponseReadyBlossom
    \/ ResponseReadyNip96

Spec == Init /\ [][Next]_vars

SpecStream == InitStream /\ [][Next]_vars

SpecCrypto == InitCrypto /\ [][NextCrypto]_vars

\* The producer task is scheduled by the runtime whenever it can run, and
\* the transport keeps polling the body stream of a request in flight.
SpecConsuming ==
    /\ Init
    /\ [][Next]_vars
    /\ WF_vars(ProducerSend)
    /\ WF_vars(ProducerDone)
    /\ WF_vars(PollNext)

\* The interval timer keeps ticking while the select loop runs, and a client
\* built with a timeout fails a request that has not completed in time; the
\* transport and the server are free to do nothing.
SpecSampling ==
    /\ Init
    /\ [][Next]_vars
    /\ WF_vars(TickBlossom)
    /\ WF_vars(TickNip96)
    /\ WF_vars(RequestTimesOut)

\* blossom.rs 113-154, 363-416, upload.rs 219-268: the steps of the two
\* controllers and the start of an attempt, which are straight-line code.
Controller ==
    \/ FailoverSkipInvalid
    \/ FailoverTryServer
    \/ FailoverExhausted
    \/ FailoverHandle
    \/ Nip96Return
    \/ RetryFirst
    \/ RetryHandle
    \/ UploadAttemptBlossom
    \/ UploadAttemptNip96

\* A step in which upload_attempt returns from its select loop.
AttemptEnds == pc = "select" /\ pc' = "returned"

\* ------------------------------------------------------------- claims
\* C1: however the attempts fail, no server sees more than retry_count + 1
\* upload attempts, and when the retry controller returns an error exactly
\* retry_count + 1 attempts were made on that server.
C1_RetryBound ==
    /\ \A i \in DOMAIN attempts : attempts[i] <= retry_count + 1
    /\ (pc = "retry_returned" /\ ~r_result.ok) => attempts[index] = retry_count + 1

C1_Witness ==
    /\ pc = "retry_returned"
    /\ ~r_result.ok
    /\ r_result.msg = "Upload request failed"
    /\ retry_count = 2
    /\ attempts[index] = 3

\* C2: attempts are made only on the entry the failover loop is at, the loop
\* only moves forward, and the first attempt on entry k happens only when
\* the last recorded error is that of entry k - 1, which was either skipped
\* as an invalid URL without any attempt or failed retry_count + 1 attempts,
\* the last of them being the latest attempt made.
C2_ListOrder ==
    [][/\ index' >= index
       /\ \A k \in DOMAIN attempts :
            /\ attempts'[k] # attempts[k] => k = index
            /\ (k > 1 /\ attempts[k] = 0 /\ attempts'[k] > 0) =>
                 /\ ~last_error.ok
                 /\ last_error.server = k - 1
                 /\ IF server_urls[k - 1] = "not a url"
                    THEN attempts[k - 1] = 0
                    ELSE attempts[k - 1] = retry_count + 1 /\ last_error.att = attempt_id]_vars

C2_Witness ==
    /\ Len(server_urls) = 2
    /\ retry_count >= 1
    /\ attempts[1] = retry_count + 1
    /\ attempts[2] > 0

\* C3: when the failover controller has returned, its result is a descriptor
\* exactly when the last attempt made succeeded; the descriptor is the one of
\* that attempt, made on the entry the loop stopped at; every earlier entry
\* was invalid or failed all its attempts, and no later entry was attempted
\* or contacted.
C3_FirstSuccess ==
    (impl = "blossom" /\ pc = "done") =>
        /\ result.ok <=> att_result.ok
        /\ result.ok =>
             /\ result = att_result
             /\ result.url.server = index
             /\ result.url.att = attempt_id
             /\ \A j \in DOMAIN attempts :
                  /\ j > index => (attempts[j] = 0 /\ j \notin contacted)
                  /\ j < index => (server_urls[j] = "not a url" \/ attempts[j] = retry_count + 1)

C3_Witness ==
    /\ pc = "done"
    /\ server_urls = <<"not a url", "https://server">>
    /\ result.ok
    /\ result.url.server = 2

\* C4: an entry that does not parse never gets an upload attempt, a retry
\* sleep, an observer call or a request, and when the loop has just moved
\* past it the last error is the invalid-URL error of that entry.
C4_InvalidSkipped ==
    \A i \in DOMAIN server_urls :
        server_urls[i] = "not a url" =>
            /\ attempts[i] = 0
            /\ sleeps[i] = 0
            /\ i \notin observed
            /\ i \notin contacted
            /\ (index = i + 1 /\ pc = "failover") =>
                 last_error = [ok |-> FALSE, msg |-> "Invalid server URL", server |-> i, att |-> 0]

C4_Witness ==
    /\ server_urls = <<"not a url", "https://server">>
    /\ attempts[2] > 0
    /\ 2 \in observed

\* C5: the error the retry controller returns is the result of the last
\* attempt made, which is the latest attempt on the current entry.
C5_LastError ==
    (pc = "retry_returned" /\ ~r_result.ok) =>
        /\ r_result = att_result
        /\ r_result.att = attempt_id
        /\ r_result.server = index

C5_Witness ==
    /\ pc = "retry_returned"
    /\ ~r_result.ok
    /\ attempts[index] = 3
    /\ r_result.msg = "observer failed"
    /\ r_result.att = attempt_id

\* C6: when every entry of a non-empty list has failed, the returned error
\* wraps the failure of the final entry: its invalid-URL error, or the
\* result of the last attempt made on it.
C6_FinalError ==
    (impl = "blossom" /\ pc = "done" /\ ~result.ok /\ Len(server_urls) > 0) =>
        /\ result.msg = "All Blossom servers failed. Last error: "
        /\ ~result.last.ok
        /\ result.last.server = Len(server_urls)
        /\ IF server_urls[Len(server_urls)] = "not a url"
           THEN result.last.msg = "Invalid server URL" /\ result.last.att = 0
           ELSE result.last = att_result /\ result.last.att = attempt_id

C6_Witness ==
    /\ pc = "done"
    /\ ~result.ok
    /\ Len(server_urls) = 2
    /\ attempts[1] > 0
    /\ attempts[2] > 0
    /\ result.last.server = 2

\* C7: once an attempt has succeeded it stays the latest attempt: the retry
\* controller returns its descriptor, and the entry has seen one attempt per
\* loop iteration so far and one sleep per retry, none after the success.
C7_StopAtSuccess ==
    att_result.ok =>
        /\ pc \in {"returned", "retry_returned", "done"}
        /\ att_result.url.att = attempt_id
        /\ att_result.url.server = index
        /\ attempts[index] = attempt + 1
        /\ sleeps[index] = attempt
        /\ pc # "returned" => r_result = att_result

C7_Witness ==
    /\ att_result.ok
    /\ pc = "retry_returned"
    /\ attempt = 1
    /\ retry_count = 2

\* C8 as stated: every call of upload_attempt invokes the signer once, and
\* the token in a request is the one minted by the attempt that sends it.
C8_SignerEveryAttempt ==
    /\ pc = "returned" => sign_calls = 1
    /\ pc = "select" => (sign_calls = 1 /\ token = attempt_id)

\* C8 as amended: an attempt invokes the signer at most once; an attempt
\* that has issued its request invoked it exactly once and sends the token
\* it minted itself; upload.rs invokes it in every attempt, while a
\* blossom.rs attempt that returns without a signer call failed on the URL
\* join or on the initial 0% report and sent no request.
C8_FreshTokenPerRequest ==
    /\ sign_calls \in {0, 1}
    /\ pc = "select" => (sign_calls = 1 /\ token = attempt_id)
    /\ (pc = "returned" /\ impl = "nip96") => sign_calls = 1
    /\ (pc = "returned" /\ sign_calls = 0) =>
         /\ ~att_result.ok
         /\ att_result.msg \in {"Invalid server URL", "observer failed"}
         /\ response = NoResponse

C8_Witness ==
    /\ pc = "select"
    /\ index = 2
    /\ attempt = 1
    /\ attempt_id = 4
    /\ token = 4

\* C9: the bytes-sent counter never exceeds the payload length.
C9_BytesBounded == bytes_sent <= total_size

C9_Witness ==
    /\ pc = "select"
    /\ total_size = 2 * BLOSSOM_CHUNK_SIZE + 1
    /\ bytes_sent = total_size
    /\ queue = <<>>
    /\ last_percentage = 99

\* C10: no step taken while an attempt is polling decreases the bytes-sent
\* counter, and the value kept from the previous timer sample never
\* decreases from one sample to the next.
C10_Monotonic ==
    [][pc = "select" =>
         /\ bytes_sent' >= bytes_sent
         /\ pc' = "select" => last_bytes_sent' >= last_bytes_sent]_vars

C10_Witness ==
    /\ pc = "select"
    /\ impl = "nip96"
    /\ last_bytes_sent = BLOSSOM_CHUNK_SIZE
    /\ bytes_sent = 2 * BLOSSOM_CHUNK_SIZE

\* Bytes of the chunks waiting in the channel.
RECURSIVE QueuedBytes(_)
QueuedBytes(q) == IF q = <<>> THEN 0 ELSE (Head(q)[2] - Head(q)[1]) + QueuedBytes(Tail(q))

\* C11: the counter an attempt samples holds only what that attempt's own
\* stream delivered: it is the bytes its producer has sliced less the bytes
\* still waiting in its channel, so it is 0 when the attempt starts polling,
\* whatever an earlier attempt left in its counter.
C11_FreshCounter == pc = "select" => bytes_sent + QueuedBytes(queue) = position

C11_Witness ==
    /\ pc = "select"
    /\ attempt = 1
    /\ r_last_error # None
    /\ r_last_error[1].msg = "Upload stalled - no progress detected"
    /\ bytes_sent = 0
    /\ last_bytes_sent = 0
    /\ quiet_ticks = 1

\* A step in which poll_next takes a chunk out of the channel.
Delivery == pc = "select" /\ pc' = "select" /\ queue # <<>> /\ queue' = Tail(queue)

\* C12: the chunks reach the consumer in strictly increasing offset order
\* without gaps or overlaps: the first starts at offset 0, every later one
\* starts where the one before it ended and at a larger offset than it; each
\* lies in the buffer and has chunk_size bytes unless it ends the buffer; and
\* a stream consumed to its end has delivered the buffer up to its last byte.
C12_ChunksInOrder ==
    /\ []((pc = "select" /\ stream_ended) =>
             (IF chunks_delivered = 0 THEN total_size = 0 ELSE last_chunk[2] = total_size))
    /\ [][Delivery =>
            LET chunk == Head(queue)
            IN  /\ IF chunks_delivered = 0
                   THEN chunk[1] = 0
                   ELSE chunk[1] = last_chunk[2] /\ chunk[1] > last_chunk[1]
                /\ chunk[2] <= total_size
                /\ chunk[2] - chunk[1] = chunk_size \/ chunk[2] = total_size]_vars

CeilDiv(n, c) == (n + c - 1) \div c

\* C13: a stream of N > 0 bytes that was consumed to its end was cut with a
\* chunk size C > 0, has delivered ceil(N / C) chunks and has left the
\* counter at N.
C13_ChunkCount ==
    (pc = "select" /\ stream_ended /\ total_size > 0) =>
        /\ chunk_size > 0
        /\ chunks_delivered = CeilDiv(total_size, chunk_size)
        /\ bytes_sent = total_size

C13_Witness ==
    /\ pc = "select"
    /\ stream_ended
    /\ total_size = 200000
    /\ chunk_size = 65536
    /\ chunks_delivered = 4
    /\ last_chunk = <<196608, 200000>>
    /\ bytes_sent = 200000

C15_QueueBounded ==
    /\ [](Len(queue) <= QUEUE_CAPACITY)
    /\ [][(Len(queue) = QUEUE_CAPACITY /\ producer' = "running") =>
            /\ position' = position
            /\ queue' = queue \/ queue' = Tail(queue)]_vars

C15_Witness ==
    /\ pc = "select"
    /\ producer = "running"
    /\ Len(queue) = QUEUE_CAPACITY
    /\ MoreToSend(position)
    /\ chunks_delivered = 1
    /\ position = (QUEUE_CAPACITY + 1) * chunk_size

\* C16: a producer whose receiver was dropped is never stuck, whether it had
\* chunks left or was waiting on the full channel: the step that ends it is
\* enabled until it is taken, and that step enqueues nothing and leaves the
\* channel, the position and the counter of the running attempt alone.
C16_ProducerEnds ==
    /\ [](orphans > 0 => ENABLED ProducerExit)
    /\ [](orphans_blocked > 0 => ENABLED ProducerWoken)
    /\ [][(orphans' < orphans \/ orphans_blocked' < orphans_blocked) =>
            UNCHANGED <<queue, position, bytes_sent, pc, att_result>>]_vars

C16_Witness ==
    /\ orphans_blocked = 1
    /\ pc = "returned"
    /\ ~att_result.ok
    /\ att_result.msg = "Upload stalled - no progress detected"
    /\ total_size = MaxLongChunks * chunk_size + 1
    /\ chunk_size = BLOSSOM_CHUNK_SIZE

\* The counter is at a value strictly between 0% and 100%.
MidTransfer ==
    LET percentage == Percentage(bytes_sent, total_size)
    IN  percentage > 0 /\ percentage < 100

C18_AttemptEnds == (pc = "select") ~> (pc # "select")

\* A timer tick of the select loop that calls the observer.
TickReport == pc = "select" /\ reports' # reports /\ response' = NoResponse

\* C19: a timer tick calls the observer once at most, and only with a
\* percentage strictly greater than the one of the previous report of the
\* attempt (the initial 0% report, or the last tick report), so that the
\* percentages of the tick reports of an attempt are strictly increasing.
C19_TickReportsIncrease ==
    [][TickReport =>
         LET last == reports[Len(reports)]
             new == reports'[Len(reports')]
         IN  /\ reports' = Append(reports, new)
             /\ new.percentage > last.percentage
             /\ new.percentage > last_percentage]_vars

C19_Witness ==
    /\ pc = "select"
    /\ impl = "blossom"
    /\ reports = <<Report(0, 0), Report(49, BLOSSOM_CHUNK_SIZE), Report(99, 2 * BLOSSOM_CHUNK_SIZE)>>
    /\ last_percentage = 99

\* C20: when an attempt has returned a descriptor, the percentages it passed
\* to the observer begin with 0, never decrease and end with 100.
C20_SuccessReports ==
    (pc = "returned" /\ att_result.ok) =>
        /\ reports # <<>>
        /\ reports[1].percentage = 0
        /\ \A i \in 1..(Len(reports) - 1) : reports[i].percentage <= reports[i + 1].percentage
        /\ reports[Len(reports)].percentage = 100

\* C21: when the observer returns failure to a report of an attempt (the
\* initial 0%, a tick report or the final 100%), the step that makes the
\* report is the step in which the attempt returns, the value returned is
\* the observer's error and not the outcome of reading the response, and
\* the observer is not called again in that attempt.
C21_ObserverAbort ==
    /\ [](rejected =>
            /\ pc = "returned"
            /\ ~att_result.ok
            /\ att_result.msg = "observer failed"
            /\ att_result.att = attempt_id
            /\ att_result.server = index
            /\ reports # <<>>)
    /\ [][(rejected' /\ ~rejected) =>
            /\ pc # "returned"
            /\ pc' = "returned"
            /\ \/ reports' = Append(reports, reports'[Len(reports')])
               \/ reports' = <<Report(0, 0)>> /\ pc = "attempt"]_vars
    /\ [][rejected => (reports' = reports \/ (reports' = <<>> /\ ~rejected'))]_vars

C21_Witness ==
    /\ rejected
    /\ pc = "returned"
    /\ reports[Len(reports)] = Report(100, total_size)
    /\ response = [status |-> 200, body |-> "descriptor"]
    /\ att_result.msg = "observer failed"

\* C22: the retry controller treats an attempt that the observer aborted as
\* it treats every failed attempt: the error becomes the last error; while
\* attempts remain the loop goes on, without returning, to the retry sleep
\* and from there to a new attempt on the same server; after the last
\* attempt the error is returned.
C22_ObserverAbortRetried ==
    /\ [][(pc = "returned" /\ ~att_result.ok /\ pc' # pc) =>
            /\ r_last_error' = Some(att_result)
            /\ UNCHANGED <<index, result, attempts, sleeps>>
            /\ IF attempt < retry_count
               THEN pc' = "retry" /\ attempt' = attempt + 1 /\ r_result' = r_result
               ELSE pc' = "retry_returned" /\ attempt' = attempt /\ r_result' = att_result]_vars
    /\ [][(pc = "retry" /\ attempt > 0 /\ pc' # pc) =>
            /\ pc' = "attempt"
            /\ sleeps' = [sleeps EXCEPT ![index] = @ + 1]
            /\ UNCHANGED <<index, attempt, r_last_error, attempts>>]_vars
    /\ [][(pc = "attempt" /\ pc' # pc) =>
            /\ attempts' = [attempts EXCEPT ![index] = @ + 1]
            /\ UNCHANGED <<index, attempt, r_last_error, sleeps>>]_vars

C22_Witness ==
    /\ pc = "select"
    /\ attempt = 1
    /\ r_last_error # None
    /\ r_last_error[1].msg = "observer failed"
    /\ r_last_error[1].att = attempt_id - 1
    /\ sleeps[index] = 1
    /\ attempts[index] = 2

\* The body parses into a descriptor (blossom.rs) or an upload response
\* (upload.rs) that holds the locator of the stored blob.
HasLocator(r) == r.body = "descriptor"

FailedServers == {j \in 1..(index - 1) : attempts[j] > 0}

\* C24: in the failover controller every failure of a server is followed, in
\* the same step and before the loop goes on, by an observer call (0%, 0
\* bytes); hence whenever the loop stands between two servers, and when the
\* first attempt on a later server starts, the observer calls made since
\* the last attempt returned are that one (0%, 0 bytes) call, which is the
\* latest call, and not a report of the failed server.
C24_FailoverReset ==
    /\ []((impl = "blossom" /\ FailedServers # {}
             /\ (pc = "failover" \/ (pc \in {"retry", "attempt"} /\ attempt = 0))) =>
            reports = <<Report(0, 0)>>)
    /\ [][(impl = "blossom" /\ pc = "retry_returned" /\ ~r_result.ok /\ pc' # pc) =>
            /\ reports' = Append(reports, Report(0, 0))
            /\ pc' = "failover"
            /\ index' = index + 1
            /\ attempts' = attempts]_vars

C24_Witness ==
    /\ pc = "attempt"
    /\ attempt = 0
    /\ index = 2
    /\ attempts = <<2, 0>>
    /\ last_error.msg = "Upload failed with status"
    /\ bytes_sent = 1
    /\ total_size = 1
    /\ reports = <<Report(0, 0)>>

\* Steps the call has still to make, at most: Window steps per list entry, of
\* which five per attempt that may still be made on the current entry.
Window == 5 * (retry_count + 1) + 1

Rank ==
    LET later == (Len(server_urls) - index) * Window
        stage == CASE pc = "retry" -> 4
                   [] pc = "attempt" -> 3
                   [] pc = "select" -> 2
                   [] pc = "returned" -> 1
                   [] OTHER -> 0
    IN  CASE pc = "done" -> 0
          [] pc = "failover" -> later + Window + 1
          [] pc = "retry_returned" -> later + 2
          [] OTHER -> later + 2 + 5 * (retry_count - attempt) + stage

\* C25: a call with any server list and retry count returns when every
\* attempt ends and every sleep elapses: the number of steps still to make
\* is finite, no other step changes it, and every step of a controller, every
\* sleep that elapses and every attempt that ends decreases it; until the
\* call has returned, a step of a controller or a sleep is possible unless
\* an attempt is polling; and the call returns a descriptor or a final error.
C25_Returns ==
    /\ [](Rank >= 0 /\ (Rank = 0 <=> pc = "done"))
    /\ [](pc = "done" => (result # NoResult /\ (result.ok \/ result.msg # "pending")))
    /\ [](pc \notin {"done", "select"} => ENABLED (Controller \/ RetrySleep))
    /\ [][LET before == Rank
               after == Rank'
           IN  IF Controller \/ RetrySleep \/ AttemptEnds
               THEN after < before
               ELSE after = before]_vars

C25_Witness ==
    /\ pc = "done"
    /\ ~result.ok
    /\ retry_count = MaxRetry
    /\ Len(server_urls) = MaxServers
    /\ \A i \in DOMAIN attempts : attempts[i] = MaxRetry + 1 /\ sleeps[i] = MaxRetry
    /\ result.last.att = MaxServers * (MaxRetry + 1)

\* C26: what encrypt_data returns is the buffer encrypted in place, of the
\* length of the plaintext, followed by the tag of TAG_SIZE bytes: for every
\* plaintext, the empty one included, the output is not empty, is TAG_SIZE
\* bytes longer than the plaintext and differs from it.
C26_TagAppended ==
    (c_pc = "encrypted" /\ encrypted.kind = "ok") =>
        LET out == encrypted.out
            key == HexDecode(params.key)
            nonce == HexDecode(params.nonce)
            body == SubSeq(out, 1, Len(data))
        IN  /\ Len(out) = Len(data) + TAG_SIZE
            /\ out # <<>>
            /\ out # data
            /\ body = EncryptInPlace(data, key, nonce)
            /\ SubSeq(out, Len(data) + 1, Len(out)) = Tag(body, key, nonce)

C26_Witness ==
    /\ c_pc = "encrypted"
    /\ encrypted.kind = "ok"
    /\ data = <<>>
    /\ Len(encrypted.out) = TAG_SIZE
    /\ params.key = HexEncode(Filled(KEY_SIZE, 171))

\* The text is hex and decodes to n bytes.
DecodesTo(text, n) == HexValid(text) /\ Len(text) = 2 * n

\* C28: whenever the key text or the nonce text is not hex, or does not
\* decode to a key of KEY_SIZE bytes and a nonce of NONCE_SIZE bytes,
\* encrypt_data returns an error value and no ciphertext.
C28_DecodeFailureIsError ==
    (c_pc = "encrypted"
       /\ ~(DecodesTo(params.key, KEY_SIZE) /\ DecodesTo(params.nonce, NONCE_SIZE))) =>
        encrypted.kind = "err"

\* C29: the retry controller sleeps right before every attempt on a server
\* but the first, and nowhere else: a sleep is taken only between a failed
\* attempt and the next attempt on the same server, and the step of the
\* controller that follows it starts that attempt; so a server that has seen
\* k >= 1 attempts has seen k - 1 sleeps (k while the k + 1st attempt is about
\* to start), and a server that has seen none has seen no sleep.
C29_SleepBeforeRetry ==
    /\ [](\A i \in DOMAIN attempts :
            IF i = index /\ pc = "attempt" /\ attempt > 0
            THEN sleeps[i] = attempts[i] /\ attempts[i] = attempt
            ELSE sleeps[i] = IF attempts[i] = 0 THEN 0 ELSE attempts[i] - 1)
    /\ [][sleeps' # sleeps =>
            /\ pc = "retry" /\ pc' = "attempt"
            /\ attempts[index] >= 1
            /\ ~att_result.ok
            /\ sleeps' = [sleeps EXCEPT ![index] = @ + 1]]_vars
    /\ [][(pc = "attempt" /\ pc' # pc) =>
            attempts' = [attempts EXCEPT ![index] = @ + 1] /\ sleeps' = sleeps]_vars

C29_Witness ==
    /\ pc = "retry_returned"
    /\ ~r_result.ok
    /\ retry_count = 2
    /\ index = 2
    /\ attempts = <<3, 3>>
    /\ sleeps = <<2, 2>>

\* A step that changes the counter of an attempt that keeps polling.
CounterChange == pc = "select" /\ pc' = "select" /\ bytes_sent' # bytes_sent

\* C30: while an attempt is polling, its bytes-sent counter is the total
\* length of the chunks delivered to the consumer so far: only a delivery
\* changes it, each delivery adds the length of the chunk delivered, in the
\* step that delivers it, and what a tick reports as bytes sent is the
\* counter as it stands, never a value between two deliveries.
C30_CounterIsDelivered ==
    /\ [](pc = "select" => bytes_sent = delivered_bytes)
    /\ [][Delivery => bytes_sent' = bytes_sent + (Head(queue)[2] - Head(queue)[1])]_vars
    /\ [][CounterChange => Delivery]_vars
    /\ [][TickReport => reports'[Len(reports')].bytes = delivered_bytes]_vars

C30_Witness ==
    /\ pc = "select"
    /\ total_size = 2 * BLOSSOM_CHUNK_SIZE + 1
    /\ chunks_delivered = 3
    /\ delivered_bytes = 2 * BLOSSOM_CHUNK_SIZE + 1
    /\ bytes_sent = delivered_bytes
    /\ reports[Len(reports)] = Report(99, 2 * BLOSSOM_CHUNK_SIZE)

\* A timer tick of upload.rs after which the attempt keeps polling: the one
\* step of a polling attempt that leaves the stream and its producers alone.
SamplingTick ==
    /\ impl = "nip96"
    /\ pc = "select"
    /\ pc' = "select"
    /\ stream' = stream
    /\ sampler' # sampler \/ quiet_ticks' # quiet_ticks \/ reports' # reports

FinalReport ==
    /\ pc = "select"
    /\ pc' = "returned"
    /\ response' # NoResponse
    /\ reports' # reports

\* The reports of the running attempt that carry 100%.
FullReports == {i \in DOMAIN reports : reports[i].percentage = 100}

\* C32: the report after the loop is made only when the counter has reached
\* the size of the payload and no tick of the attempt has reported 100%, and
\* the observer is never given 100% twice within one attempt.
C32_FinalReportOnce ==
    /\ [][FinalReport => (bytes_sent = total_size /\ last_percentage < 100)]_vars
    /\ [](Cardinality(FullReports) <= 1)

\* ------------------------------------------------ the sampled counter
\* Payloads of up to MaxSampled chunks.
MaxSampled == 100

\* blossom.rs 214, upload.rs 337: an attempt in its select loop on which no
\* tick has fired yet, the first chunks of the payload delivered and the
\* producer not yet scheduled again.
InitSampled ==
    /\ impl \in {"blossom", "nip96"}
    /\ mime_ok = TRUE
    /\ chunk_size = BLOSSOM_CHUNK_SIZE
    /\ stall_threshold \in IF impl = "blossom" THEN {0} ELSE StallThresholds
    /\ retry_count = 0
    /\ server_urls = <<"https://server">>
    /\ total_size \in {n * chunk_size : n \in 0..MaxSampled}
    /\ bytes_sent \in {k * chunk_size : k \in 0..(total_size \div chunk_size)}
    /\ pc = "select"
    /\ index = 1
    /\ last_error = NoServers
    /\ attempt = 0
    /\ r_last_error = None
    /\ att_result = NoResult
    /\ r_result = NoResult
    /\ result = NoResult
    /\ position = bytes_sent
    /\ queue = <<>>
    /\ producer = "running"
    /\ stream_ended = FALSE
    /\ orphans = 0
    /\ orphans_blocked = 0
    /\ last_chunk = IF bytes_sent = 0 THEN NoChunk ELSE <<bytes_sent - chunk_size, bytes_sent>>
    /\ chunks_delivered = Min(bytes_sent \div chunk_size, CountCap)
    /\ delivered_bytes = bytes_sent
    /\ quiet_ticks = 0
    /\ last_percentage = 0
    /\ last_bytes_sent = 0
    /\ stall_counter = 0
    /\ response = NoResponse
    /\ token = FreshToken(1)
    /\ attempt_id = 1
    /\ attempts = <<1>>
    /\ sleeps = <<0>>
    /\ observed = {1}
    /\ reports = <<Report(0, 0)>>
    /\ rejected = FALSE
    /\ reset_rejected = FALSE
    /\ sign_calls = 1
    /\ contacted = {1}
    /\ CryptoIdle

\* blossom.rs 221-236, upload.rs 344-371: the timer branch of the select loop.
NextSampled ==
    \/ TickBlossom
    \/ TickNip96

SpecSampled == InitSampled /\ [][NextSampled]_vars

\* floor(bytes * 100 / total), and 0 for an empty payload.
Floor(bytes, total) == IF total > 0 THEN (bytes * 100) \div total ELSE 0

\* C33: the percentage a tick computes from the counter it sampled is
\* floor(bytesSent * 100 / totalSize), 0 for an empty payload, and lies in
\* 0..100.
C33_PercentageIsFloor ==
    \A i \in DOMAIN reports :
        /\ reports[i].percentage = Floor(reports[i].bytes, total_size)
        /\ reports[i].percentage \in 0..100

\* A step of a polling attempt taken by the sampling loop, an observer
\* call, the producer task (of this or of an earlier attempt) or the
\* handling of the response or of a failure: a step that changes something
\* only these write.
OutsidePollNext ==
    /\ pc = "select"
    /\ \/ sampler' # sampler
       \/ observer' # observer
       \/ position' # position
       \/ producer' # producer
       \/ orphans' # orphans
       \/ orphans_blocked' # orphans_blocked
       \/ response' # response
       \/ pc' # pc

\* C34: within an attempt the sampling loop, the observer calls, the
\* producer task and the response handling leave the bytes-sent counter as
\* it is; the one step that writes it is the consumer's poll_next, which
\* changes none of what those write.
C34_OnlyPollNextWrites ==
    [][OutsidePollNext => bytes_sent' = bytes_sent]_vars

C34_Witness ==
    /\ pc = "returned"
    /\ response # NoResponse
    /\ total_size = 2 * BLOSSOM_CHUNK_SIZE + 1
    /\ bytes_sent = BLOSSOM_CHUNK_SIZE
    /\ Len(reports) = 2
    /\ reports[2] = Report(49, BLOSSOM_CHUNK_SIZE)
    /\ orphans = 1

\* A step in which the observer is called.
ObserverCall == reports' # reports /\ reports' # <<>>

\* C35: every observer call made during an attempt, the report after the
\* loop included, carries as bytes sent at most the value the attempt's
\* counter has at the moment of the call.
C35_ReportedAtMostSent ==
    [][ObserverCall => reports'[Len(reports')].bytes <= bytes_sent']_vars

\* blossom.rs 210-212, upload.rs 320-324: the step in which an attempt
\* issues its HTTP request.
RequestIssued == contacted' # contacted

\* C36: an attempt issues its HTTP request only in the step that has made
\* the initial (0%, 0 bytes) report and seen it accepted; an attempt whose
\* initial report the observer rejects returns the observer's error with no
\* request issued, no token in flight and no stream running; and a run that
\* has issued no request to any server has failed after retry_count + 1
\* attempts on every server whose URL parses.
C36_ReportBeforeRequest ==
    /\ [][RequestIssued => (pc = "attempt" /\ reports' = <<Report(0, 0)>> /\ ~rejected')]_vars
    /\ [][(pc = "attempt" /\ rejected') =>
            /\ pc' = "returned"
            /\ ~att_result'.ok
            /\ att_result'.msg = "observer failed"
            /\ contacted' = contacted
            /\ token' = 0
            /\ producer' = "none"]_vars
    /\ []((pc = "done" /\ contacted = {}) =>
            /\ ~result.ok
            /\ \A i \in 1..Len(server_urls) :
                   UrlParses(server_urls[i]) => attempts[i] = retry_count + 1)

C36_Witness ==
    /\ pc = "done"
    /\ impl = "blossom"
    /\ contacted = {}
    /\ retry_count = 2
    /\ attempts = <<3, 3>>
    /\ observed = {1, 2}
    /\ result.last.msg = "observer failed"
    /\ result.last.att = 6

\* blossom.rs 408: the step in which the failover controller makes the
\* reset report.
ResetReport == pc = "retry_returned" /\ reports' # reports

\* blossom.rs 380-384: the error recorded for an entry that does not parse.
SkippedEntry(e) == e.msg = "Invalid server URL" /\ e.att = 0

\* C37: the reset report the failover controller makes after a server has
\* failed ignores the observer's result: whatever the observer answers, the
\* error recorded is the one the server's retries ended with, the loop
\* moves on to the next entry and nothing is returned; and a run in which
\* the observer rejected the reset report ends only when the list is
\* exhausted, with the last server's error, or that of an unparsable entry
\* skipped after it, in its result.
C37_ResetResultIgnored ==
    /\ [][ResetReport =>
            /\ last_error' = r_result
            /\ index' = index + 1
            /\ pc' = "failover"
            /\ result' = result]_vars
    /\ []((reset_rejected /\ pc \in {"failover", "done"}) =>
            (last_error = r_result \/ SkippedEntry(last_error)))
    /\ []((reset_rejected /\ pc = "done") =>
            (index > Len(server_urls) /\ result = AllFailed(last_error)))

C37_Witness ==
    /\ reset_rejected
    /\ pc = "attempt"
    /\ index = 2
    /\ attempt = 0
    /\ last_error.server = 1
    /\ last_error.msg = "Upload request failed"
    /\ reports = <<Report(0, 0)>>

\* ------------------------------------------- failover without progress
\* blossom.rs 300-311: upload_blob's match on the response status.
UploadBlobOutcome(r, a) ==
    IF r.status = 200
    THEN IF r.body = "descriptor" THEN Ok(a) ELSE ErrAt("Failed to parse response", a)
    ELSE [ok |-> FALSE, msg |-> "Upload failed with status", status |-> r.status,
          text |-> r.body, server |-> index, att |-> a]

\* blossom.rs 262-312: upload_blob, one request without a progress observer.
\* sign_ok: the signer signs; sent: the request gets a response.
UploadBlobResult(sign_ok, sent, r, a) ==
    IF ~UrlJoins(server_urls[index]) THEN ErrAt("Invalid server URL", a)
    ELSE IF ~sign_ok THEN ErrAt("Failed to sign auth event", a)
    ELSE IF ~mime_ok THEN ErrAt("Invalid content type", a)
    ELSE IF ~sent THEN ErrAt("Upload request failed", a)
    ELSE UploadBlobOutcome(r, a)

\* blossom.rs 331-355: one iteration of upload_blob_with_failover on an
\* entry that parses: upload_blob is called once, a success is returned and
\* a failure recorded.
UploadBlob ==
    /\ pc = "failover"
    /\ impl = "simple"
    /\ index <= Len(server_urls)
    /\ UrlParses(server_urls[index])
    /\ attempt_id' = attempt_id + 1
    /\ attempts' = [attempts EXCEPT ![index] = @ + 1]
    /\ \E sign_ok \in BOOLEAN, sent \in BOOLEAN, r \in Responses :
         LET joined == UrlJoins(server_urls[index])
             requested == joined /\ sign_ok /\ mime_ok
             res == UploadBlobResult(sign_ok, sent, r, attempt_id')
         IN  /\ sign_calls' = IF joined THEN 1 ELSE 0
             /\ token' = IF requested THEN FreshToken(attempt_id') ELSE 0
             /\ contacted' = IF requested THEN contacted \cup {index} ELSE contacted
             /\ IF UploadSucceeded(res)
                THEN /\ result' = res
                     /\ pc' = "done"
                     /\ UNCHANGED failover
                ELSE /\ last_error' = RecordFailure(last_error, res)
                     /\ index' = index + 1
                     /\ UNCHANGED <<pc, result>>
    /\ UNCHANGED <<inputs, retry, att_result, r_result, stream, sampler, response, sleeps, observer,
                   consumed, quiet_ticks>>

\* upload_blob_with_failover (blossom.rs 320-330) is entered.
InitSimple ==
    /\ impl = "simple"
    /\ mime_ok \in BOOLEAN
    /\ chunk_size = BLOSSOM_CHUNK_SIZE
    /\ stall_threshold = 0
    /\ retry_count = 0
    /\ server_urls \in ServerLists
    /\ total_size \in Tails
    /\ Entered
    /\ CryptoIdle

\* The entry points that take a list of servers, and upload.rs.
InitFailover == Init \/ InitSimple

NextFailover ==
    \/ Next
    \/ UploadBlob

SpecFailover == InitFailover /\ [][NextFailover]_vars

\* C38: called with an empty server list, upload_blob_with_progress_and_failover
\* and upload_blob_with_failover make no upload attempt, no signer call, no
\* request and no observer call, and what they return is the error that
\* carries the diagnostic "No servers available".
C38_EmptyList ==
    server_urls = <<>> =>
        /\ pc \in {"failover", "done"}
        /\ attempt_id = 0
        /\ sign_calls = 0
        /\ token = 0
        /\ contacted = {}
        /\ observed = {}
        /\ reports = <<>>
        /\ pc = "done" =>
              /\ ~result.ok
              /\ result.msg = "All Blossom servers failed. Last error: "
              /\ result.last.msg = "No servers available"

C38_Witness ==
    /\ impl = "simple"
    /\ server_urls = <<>>
    /\ pc = "done"
    /\ result.last.msg = "No servers available"

\* ------------------------------------------------- sending an attachment
\* lib.rs 593-619, 831-913: send_group_attachment and send_private_file
\* encrypt the file and upload the result with three retries.
SEND_RETRIES == 3

\* get_blossom_servers() (lib.rs 106-112): the configured list.
SendServerLists == {<<>>, <<"https://server">>, <<"not a url", "https://server">>}

\* Faulty variant of Handed: the file's own bytes are uploaded.
HandedPlain(plain, cipher) == plain

\* lib.rs 617, 877: enc_file is the file_data argument of the upload.
Handed(plain, cipher) == cipher

\* send_private_file or send_group_attachment is entered with a file.
InitSend ==
    /\ impl = "blossom"
    /\ mime_ok \in BOOLEAN
    /\ chunk_size = BLOSSOM_CHUNK_SIZE
    /\ stall_threshold = 0
    /\ retry_count = SEND_RETRIES
    /\ server_urls \in SendServerLists
    /\ total_size = 0
    /\ pc = "send"
    /\ NothingRun
    /\ crate = "sdk"
    /\ data \in {<<>>, <<65>>}
    /\ params = NoParams
    /\ encrypted = NoOutcome
    /\ c_pc = "idle"

\* lib.rs 606, 857: encrypt_data is called on the file's bytes.  The AEAD
\* returns an error for a buffer longer than it can encrypt (crypto.rs
\* 101-103), which encrypt_data passes on.
SendEncrypt ==
    /\ pc = "send"
    /\ c_pc = "ready"
    /\ \E accepted \in BOOLEAN :
         encrypted' = IF accepted THEN encrypt_data(data, params)
                                  ELSE CryptoError("AesGcmError", "aead::Error")
    /\ c_pc' = "encrypted"
    /\ UNCHANGED <<crate, data, params>>
    /\ UNCHANGED <<impl, server_urls, retry_count, total_size, chunk_size, stall_threshold, mime_ok,
                   pc, failover, retry, results, stream, sampler, response, auth, counts, observer,
                   consumed, quiet_ticks>>

\* lib.rs 606, 857-863: the Err arm; the operation returns its failure.
SendFails ==
    /\ pc = "send"
    /\ c_pc = "encrypted"
    /\ encrypted.kind # "ok"
    /\ pc' = "send_failed"
    /\ UNCHANGED <<inputs, failover, retry, results, stream, sampler, response, auth, counts, observer,
                   consumed, quiet_ticks>>

\* lib.rs 607-617, 864-882: upload_blob_with_progress_and_failover is called
\* with the encrypted file.
SendUpload ==
    /\ pc = "send"
    /\ c_pc = "encrypted"
    /\ encrypted.kind = "ok"
    /\ total_size' = Len(Handed(data, encrypted.out))
    /\ pc' = "failover"
    /\ UNCHANGED <<impl, server_urls, retry_count, chunk_size, stall_threshold, mime_ok, crypto>>
    /\ UNCHANGED <<failover, retry, results, stream, sampler, response, auth, counts, observer,
                   consumed, quiet_ticks>>

\* The steps of the caller and of the upload of blossom.rs it starts; the
\* payload is shorter than one chunk, so no producer ever waits in send.
NextSend ==
    \/ GenerateParams
    \/ SendEncrypt
    \/ SendFails
    \/ SendUpload
    \/ FailoverSkipInvalid
    \/ FailoverTryServer
    \/ FailoverExhausted
    \/ FailoverHandle
    \/ RetryFirst
    \/ RetrySleep
    \/ RetryHandle
    \/ UploadAttemptBlossom
    \/ ProducerSend
    \/ ProducerDone
    \/ ProducerExit
    \/ PollNext
    \/ TickBlossom
    \/ RequestFails
    \/ RequestTimesOut
    \/ ResponseReadyBlossom

SpecSend == InitSend /\ [][NextSend]_vars

\* Nothing of an upload has happened: no attempt, signer call, token,
\* request or observer call.
NoUploadYet ==
    /\ attempt_id = 0
    /\ sign_calls = 0
    /\ token = 0
    /\ contacted = {}
    /\ observed = {}
    /\ reports = <<>>
    /\ producer = "none"

\* C39: send_private_file and send_group_attachment start the upload only
\* after encrypt_data has returned a buffer: while the file is not
\* encrypted, and when encryption has failed and the operation has returned
\* its failure, nothing of an upload has happened; and what the failover
\* controller is given is the encrypted buffer, the file's bytes followed
\* by the tag in length, not the file.
C39_EncryptBeforeUpload ==
    /\ pc \in {"send", "send_failed"} => NoUploadYet
    /\ pc = "send_failed" => (c_pc = "encrypted" /\ encrypted.kind = "err")
    /\ pc \notin {"send", "send_failed"} =>
          /\ c_pc = "encrypted"
          /\ encrypted.kind = "ok"
          /\ total_size = Len(encrypted.out)
          /\ total_size = Len(data) + TAG_SIZE

C39_Witness ==
    /\ pc = "send_failed"
    /\ encrypted = CryptoError("AesGcmError", "aead::Error")
    /\ data = <<65>>
    /\ server_urls = <<"https://server">>

\* blossom.rs 37, upload.rs 133: the producer of the running attempt waits
\* in send on the full channel.
ProducerBlocked ==
    /\ pc = "select"
    /\ producer = "running"
    /\ MoreToSend(position)
    /\ SendOutcome(FALSE, Len(queue)) = "blocked"

\* blossom.rs 221, upload.rs 344: the timer branch of the select loop.
Tick == TickBlossom \/ TickNip96

\* blossom.rs 217, upload.rs 340: the response branch of the select loop.
ResponseBranch == ResponseReadyBlossom \/ ResponseReadyNip96 \/ RequestFails

\* C40: while the producer of a running attempt waits on the full channel,
\* the select loop can still take a timer tick and can still take the
\* response or the failure of the request, and the consumer has a chunk to
\* take, so the three never wait for one another and the attempt can end.
C40_BlockedProducerHarmless ==
    ProducerBlocked =>
        /\ ENABLED Tick
        /\ ENABLED ResponseBranch
        /\ ENABLED PollNext
        /\ queue # <<>>

C40_Witness ==
    /\ ProducerBlocked
    /\ impl = "nip96"
    /\ chunk_size = BLOSSOM_CHUNK_SIZE
    /\ Len(queue) = QUEUE_CAPACITY
    /\ chunks_delivered = 1
    /\ stall_counter = 1

====
